---- MODULE Spec2Model ----
(***************************************************************************)
(* Model of the ReelMyDay background render worker (lib/render-worker.ts)  *)
(* and of the intake handler that enqueues its jobs (pages/api/render.ts). *)
(*                                                                         *)
(* Every awaited call of tick() is one step of the model: the awaited      *)
(* store / tool operation together with the synchronous code that follows  *)
(* it up to the next await.  Several worker processes poll the same        *)
(* RenderJob table; inside one process setInterval starts a new tick()     *)
(* every 3 s whether or not an earlier tick has finished.                  *)
(***************************************************************************)
EXTENDS Integers, Sequences, FiniteSets, TLC

\* ------------------------------------------------------------------ bounds
NumProcs    == 1   \* worker processes polling the same queue
MaxInFlight == 2   \* tick() invocations of one process that overlap in time
MaxJobs     == 2   \* RenderJob rows created by the intake handler
MaxItems    == 2   \* media items of one job
ExtraRows   == 3   \* Render rows beyond KEEP an owner may have when pruned
NumWorkers  == 3   \* node processes that load the worker module
MaxEvals    == 4   \* evaluations of the worker module inside one process
MaxAttempts == 2   \* times a job is claimed when stale jobs are reset
MaxSmall    == 17  \* largest of the small source widths / heights probed

\* ------------------------------------------------------- program constants
KEEP == 20                \* pruneOldRendersForUser: const KEEP = 20
MAX_ITEMS == 40           \* RM_MAX_ITEMS default
MAX_TOTAL == 250000000    \* RM_MAX_TOTAL_BYTES default
FPS == 30                 \* frames per second of every segment
WIDTH == 1080             \* canvas width
HEIGHT == 1920            \* canvas height

Procs  == 1..NumProcs
Ticks  == Procs \X (1..MaxInFlight)
JobIds == 1..MaxJobs
Emails == {"u1"}   \* owners who enqueue jobs in the model
Others == {"u0"}   \* an owner with stored renders and no job
NoJob  == 0
NoErr  == "none"
Null   == "null"

\* table User: the (lower-case) emails that have a row; isProEmail is true of
\* ProEmails (OWNER_EMAIL, PRO_EMAILS or User.isPro)
Users     == {"u0", "u1", "u2"}
ProEmails == {"u1"}

\* String.prototype.toLowerCase on the emails of the model
ToLowerCase(e) ==
  CASE e = "U1" -> "u1"
    [] e = "U2" -> "u2"
    [] OTHER    -> e

\* Times are in milliseconds.  A quotient the code computes in floating point
\* is kept exact as a fraction <<numerator, denominator>>.
NoFrac == <<0, 1>>
Frac(n, d) == <<n, d>>
FracLeq(a, b) == a[1] * b[2] <= b[1] * a[2]
FracMax(a, b) == IF FracLeq(a, b) THEN b ELSE a
FracMin(a, b) == IF FracLeq(a, b) THEN a ELSE b

\* One media item of a request: its kind (from the declared mime), the
\* base64 length of its data URL (0: given by url) and, for a video, its length.
Item(kind, len, dur) == [kind |-> kind, len |-> len, dur |-> dur]

\* The music asset of a request: absent, or a data URL holding a file whose
\* streams are audio only ("audio") or include a video stream ("video"), of
\* length dur.
NoMusic == [kind |-> "none", len |-> 0, dur |-> 0]
Music(kind, len, dur) == [kind |-> kind, len |-> len, dur |-> dur]

\* What the intake handler answers: the HTTP status and the JSON body's fields.
Response(status, ok, error, jobId, limit) ==
  [status |-> status, ok |-> ok, error |-> error, jobId |-> jobId, limit |-> limit]

NoResponse == Response(0, FALSE, Null, NoJob, 0)

VARIABLES
  renderJob,   \* table RenderJob: job id -> row
  render,      \* table Render: set of rows
  renderSeq,   \* number of Render rows ever created (fresh primary keys)
  files,       \* files present in the renders directory (public artifact paths)
  partial,     \* those of `files` holding an unfinished or intermediate output
  tmpDirs,     \* job ids whose tmp-<jobId> directory exists
  clock,       \* wall clock (Date.now() / CURRENT_TIMESTAMP), in ticks of 1 ms
  pc,          \* per tick(): the await it is suspended at ("idle": not running)
  oldest,      \* per tick(): local `oldest` (job id found by findFirst)
  idx,         \* per tick(): loop index i of the segment loop
  segs,        \* per tick(): local `segs`, the segments built so far, in push order
  musicPath,   \* per tick(): whether musicPath is set (music was supplied)
  perImage,    \* per tick(): local `perImage`, seconds per still, as a fraction of ms
  outTs,       \* per tick(): nowTs() used in outName
  err,         \* per tick(): message of the exception caught by catch (e)
  toDelete,    \* per tick(): local `toDelete` of pruneOldRendersForUser
  won,         \* per job: number of claim updates that returned count = 1
  usage,       \* data/usage.json: exports counted per (lower-case) email
  res,         \* the response the intake handler sent last
  renderLoopBooted, \* per process: global.__renderLoopBooted
  booted,      \* per process: the `booted` flag of each evaluation of the module
  intervals,   \* per process: number of setInterval timers started
  vfArgs,      \* arguments of the buildContainWithBlurVF call under study
  vf           \* the filter graph that call returned

vars == <<renderJob, render, renderSeq, files, partial, tmpDirs, clock,
          pc, oldest, idx, segs, musicPath, perImage, outTs, err, toDelete,
          won, usage, res, renderLoopBooted, booted, intervals, vfArgs, vf>>

storeVars  == <<renderJob, render, renderSeq, files, partial, tmpDirs>>
tickVars   == <<pc, oldest, idx, segs, musicPath, perImage, outTs, err, toDelete>>
intakeVars == <<usage, res>>
bootVars   == <<renderLoopBooted, booted, intervals>>
vfVars     == <<vfArgs, vf>>

\* ---------------------------------------------------------------- helpers
Created == DOMAIN renderJob

ProcOf(t) == t[1]

\* prisma.renderJob.findFirst({where:{status:"QUEUED"}, orderBy:{createdAt:"asc"}})
\* : the candidates; rows with equal createdAt come in store-chosen order.
Queued == {j \in Created : renderJob[j].status = "QUEUED"}

\* mutant: findFirst without orderBy
AnyQueued == Queued

OldestQueued ==
  {j \in Queued : \A k \in Queued : renderJob[j].createdAt <= renderJob[k].createdAt}

\* outName = `reel-${nowTs()}-${jobId.slice(0,8)}.mp4`
OutName(ts, j) == [ts |-> ts, job |-> j, mixed |-> FALSE]

\* replaceAudioWithMusic: videoPath.replace(/\.mp4$/i, "-music.mp4")
MixedName(f) == [f EXCEPT !.mixed = TRUE]

\* relUrl = `/renders/${path.basename(finalPath)}`
RelUrl(f) == <<"/renders/", f>>

\* Render rows left by earlier jobs, each with its artifact file: n of "u1"
\* (ids 1..n) and one of "u0".  Their createdAt follow one of three shapes:
\* 1: one row per millisecond in id order; 2: in reverse id order (a cuid
\* says nothing about time); 3: two rows per millisecond (rows written by
\* workers that finished together).
StoredAt(i, n, shape) ==
  CASE shape = 1 -> i
    [] shape = 2 -> n + 1 - i
    [] OTHER     -> (i + 1) \div 2

StoredRow(i, u, at) ==
  [id |-> i, userId |-> u, createdAt |-> at,
   fileName |-> [ts |-> i, job |-> NoJob, mixed |-> FALSE]]

StoredRows(n, shape) ==
  {StoredRow(i, "u1", StoredAt(i, n, shape)) : i \in 1..n}
    \cup {StoredRow(0, "u0", 0)}

Working == {"readJob", "segment", "concat", "music", "save", "pruneFind",
            "pruneDelete", "markDone", "markFailed"}

\* ------------------------------------------------------------ worker loop
Workers == 1..NumWorkers

\* A process in which the module was evaluated once: the top-level code set
\* the global flag and boot() started the one interval.
Booted ==
  /\ renderLoopBooted = [p \in Workers |-> TRUE]
  /\ booted = [p \in Workers |-> <<TRUE>>]
  /\ intervals = [p \in Workers |-> 1]

\* no filter graph is being built
NoVf == [kind |-> "none"]

NoVfCall ==
  /\ vfArgs = NoVf
  /\ vf = NoVf

\* ------------------------------------------------------------------- Init
Init ==
  /\ renderJob = <<>>
  /\ render = StoredRows(KEEP - 1, 1)
  /\ renderSeq = KEEP
  /\ files = {r.fileName : r \in StoredRows(KEEP - 1, 1)}
  /\ partial = {}
  /\ tmpDirs = {}
  /\ clock = KEEP
  /\ pc = [t \in Ticks |-> "idle"]
  /\ oldest = [t \in Ticks |-> NoJob]
  /\ idx = [t \in Ticks |-> 0]
  /\ segs = [t \in Ticks |-> <<>>]
  /\ musicPath = [t \in Ticks |-> FALSE]
  /\ perImage = [t \in Ticks |-> NoFrac]
  /\ outTs = [t \in Ticks |-> 0]
  /\ err = [t \in Ticks |-> NoErr]
  /\ toDelete = [t \in Ticks |-> {}]
  /\ won = [j \in JobIds |-> 0]
  /\ usage = [u \in Users |-> 0]
  /\ res = NoResponse
  /\ Booted
  /\ NoVfCall

\* ----------------------------------------------------------- intake
\* approxBytesFromDataUrl: Math.floor(b64.length * 0.75)
ApproxBytes(len) == (len * 3) \div 4

RECURSIVE SumBytes(_)
SumBytes(items) ==
  IF items = <<>> THEN 0
  ELSE (IF Head(items).len > 0 THEN ApproxBytes(Head(items).len) ELSE 0)
         + SumBytes(Tail(items))

\* let total = 0; for (const it of items) ...; if (body.music?.dataUrl) ...
TotalBytes(q) ==
  SumBytes(q.items) + (IF q.music.len > 0 THEN ApproxBytes(q.music.len) ELSE 0)

\* mutant: the ceiling is compared one item too late
TooManyItemsOffByOne(items) == Len(items) > MAX_ITEMS + 1

\* if (items.length > MAX_ITEMS)
TooManyItems(items) == Len(items) > MAX_ITEMS

\* return res.status(...).json({ ok: false, ... }) before anything is written
Reject(r) ==
  /\ res' = r
  /\ UNCHANGED <<renderJob, clock, usage>>

\* The row written by prisma.renderJob.create; createdAt is CURRENT_TIMESTAMP.
NewJob(q, at) ==
  [status |-> "QUEUED", userEmail |-> ToLowerCase(q.email), outputUrl |-> Null,
   error |-> Null, createdAt |-> at, items |-> q.items,
   options |-> [durationSec |-> q.durationSec,
                maxPerVideoSec |-> q.maxPerVideoSec,
                keepVideoAudio |-> q.keepVideoAudio,
                music |-> q.music,
                matchMusicDuration |-> q.matchMusicDuration]]

\* pages/api/render.ts handler, for the request q of a session with q.email
Handler(q) ==
  /\ LET e == ToLowerCase(q.email)
         pro == e \in ProEmails
     IN
     IF q.method # "POST"
       THEN Reject(Response(405, FALSE, Null, NoJob, 0))
     ELSE IF q.email = Null \/ e \notin Users
       THEN Reject(Response(401, FALSE, "not_signed_in", NoJob, 0))
     ELSE IF ~pro /\ usage[e] >= 1
       THEN Reject(Response(402, FALSE, "free_limit_reached", NoJob, 0))
     ELSE IF Len(q.items) = 0
       THEN Reject(Response(400, FALSE, "no_items", NoJob, 0))
     ELSE IF TooManyItems(q.items)
       THEN Reject(Response(413, FALSE, "too_many_items", NoJob, MAX_ITEMS))
     ELSE IF TotalBytes(q) > MAX_TOTAL
       THEN Reject(Response(413, FALSE, "payload_too_large", NoJob, MAX_TOTAL))
     ELSE
       /\ Cardinality(Created) < MaxJobs
       /\ \/ Reject(Response(500, FALSE, "server_error", NoJob, 0))
          \/ LET j == Cardinality(Created) + 1 IN
             /\ renderJob' = [k \in Created \cup {j} |->
                                IF k = j THEN NewJob(q, clock + 1) ELSE renderJob[k]]
             /\ clock' = clock + 1
             /\ usage' = IF pro THEN usage ELSE [usage EXCEPT ![e] = @ + 1]
             /\ res' = Response(200, TRUE, Null, j, 0)
  /\ UNCHANGED <<render, renderSeq, files, partial, tmpDirs, won>>
  /\ UNCHANGED tickVars
  /\ UNCHANGED <<bootVars, vfVars>>

\* A request body with the default timing options.
Upload(email, items, music, match) ==
  [method |-> "POST", email |-> email, items |-> items, durationSec |-> 2500,
   maxPerVideoSec |-> 0, keepVideoAudio |-> FALSE, music |-> music,
   matchMusicDuration |-> match]

Stills(n) == [k \in 1..n |-> Item("image", 4, 0)]

\* The uploads of owner u that the worker model processes: 1..MaxItems stills,
\* without music or with a 3 s audio file.
Uploads(u) ==
  {Upload(u, Stills(n), m, FALSE) :
     n \in 1..MaxItems, m \in {NoMusic, Music("audio", 4, 3000)}}

\* a signed-in owner posts a well-formed request
Enqueue(u) == \E q \in Uploads(u) : Handler(q)

\* ------------------------------------------------------------- tick()
\* mutant: the call never returns and its slot stays taken
LeaveNever(t) ==
  /\ pc' = [pc EXCEPT ![t] = "hung"]
  /\ UNCHANGED <<oldest, idx, segs, musicPath, perImage, outTs, err, toDelete>>

\* Leaving the tick: the promise settles, the slot is free for a later interval.
Leave(t) ==
  /\ pc' = [pc EXCEPT ![t] = "idle"]
  /\ oldest' = [oldest EXCEPT ![t] = NoJob]
  /\ idx' = [idx EXCEPT ![t] = 0]
  /\ segs' = [segs EXCEPT ![t] = <<>>]
  /\ musicPath' = [musicPath EXCEPT ![t] = FALSE]
  /\ perImage' = [perImage EXCEPT ![t] = NoFrac]
  /\ outTs' = [outTs EXCEPT ![t] = 0]
  /\ err' = [err EXCEPT ![t] = NoErr]
  /\ toDelete' = [toDelete EXCEPT ![t] = {}]

\* Entering catch (e): the FAILED update is issued next.
Throw(t, msg) ==
  /\ pc' = [pc EXCEPT ![t] = "markFailed"]
  /\ err' = [err EXCEPT ![t] = msg]

\* setInterval fires; findFirst oldest QUEUED; if (!oldest) return
TickFind(t) ==
  /\ pc[t] = "idle"
  /\ \A k \in 1..(t[2] - 1) : pc[<<ProcOf(t), k>>] # "idle"
  /\ \E j \in OldestQueued :
       /\ oldest' = [oldest EXCEPT ![t] = j]
       /\ pc' = [pc EXCEPT ![t] = "claim"]
  /\ UNCHANGED <<idx, segs, musicPath, perImage, outTs, err, toDelete, won, clock>>
  /\ UNCHANGED storeVars
  /\ UNCHANGED <<intakeVars, bootVars, vfVars>>

\* mutant: the claim updates by id alone, where: { id }
ClaimWhereIdOnly(j) == j \in Created

\* the where clause of the claiming updateMany
ClaimWhere(j) == renderJob[j].status = "QUEUED"

\* mutant: the claim also rewrites the owner of the row
ClaimDataTakesOwner(row) == [row EXCEPT !.status = "RUNNING", !.userEmail = "u0"]

\* data: { status: "RUNNING" }
ClaimData(row) == [row EXCEPT !.status = "RUNNING"]

\* mutant: the count of the claim is not looked at and the try block is entered
ClaimLostProceeds(t) ==
  /\ pc' = [pc EXCEPT ![t] = "readJob"]
  /\ UNCHANGED <<oldest, idx, segs, musicPath, perImage, outTs, err, toDelete, renderJob, won>>

\* if (claimed.count === 0) return;  // someone else took it
ClaimLost(t) ==
  /\ Leave(t)
  /\ UNCHANGED <<renderJob, won>>

\* updateMany({where:{id, status:"QUEUED"}, data:{status:"RUNNING"}});
\* if (claimed.count === 0) return;  try { ensurePersistentRendersDir(); ...
TickClaim(t) ==
  /\ pc[t] = "claim"
  /\ LET j == oldest[t] IN
     IF ClaimWhere(j)
     THEN /\ renderJob' = [renderJob EXCEPT ![j] = ClaimData(@)]
          /\ won' = [won EXCEPT ![j] = @ + 1]
          /\ \/ /\ pc' = [pc EXCEPT ![t] = "readJob"]
                /\ UNCHANGED err
             \/ Throw(t, "io_error")
          /\ UNCHANGED <<oldest, idx, segs, musicPath, perImage, outTs, toDelete>>
     ELSE ClaimLost(t)
  /\ UNCHANGED <<render, renderSeq, files, partial, tmpDirs, clock>>
  /\ UNCHANGED <<intakeVars, bootVars, vfVars>>

\* The job row as tick() holds it after findUnique.
Job(t) == renderJob[oldest[t]]

\* finalPath: the concat output, or the music-mixed file when music is used
FinalName(t) ==
  IF musicPath[t] THEN MixedName(OutName(outTs[t], oldest[t]))
                  ELSE OutName(outTs[t], oldest[t])

\* run(): on a non-zero exit, reject(new Error(`${bin} exited with ${code}\n${err}`)),
\* err being everything the tool wrote to stderr
ExitedWith(bin, code, stderr) == bin \o " exited with " \o code \o "\n" \o stderr

\* what a failing ffmpeg / ffprobe wrote to stderr
StderrTexts == {"Invalid data found when processing input"}

ToolErrors(bin) == {ExitedWith(bin, "1", d) : d \in StderrTexts}

\* ffprobeInfo(musicPath).dur: ffprobe -select_streams v:0 reports the first
\* video stream only; s.duration is undefined (0 here) for a file without one
ProbedDur(m) == IF m.kind = "video" THEN m.dur ELSE 0

\* wantMatch = !!opt.matchMusicDuration && !!musicPath && musicSeconds && musicSeconds > 2
WantMatch(opt, hasMusicPath, musicSeconds) ==
  /\ opt.matchMusicDuration
  /\ hasMusicPath
  /\ musicSeconds # 0
  /\ musicSeconds > 2000

NumVideos(items) == Cardinality({k \in DOMAIN items : items[k].kind = "video"})

\* perImage: durationSec, or with wantMatch the music length less a budget of
\* maxPerVideoSec (or 3 s) per video, shared by the stills, within [1.2, 4.0]
PerImage(job, hasMusicPath, musicSeconds) ==
  LET opt    == job.options
      nv     == NumVideos(job.items)
      budget == nv * (IF opt.maxPerVideoSec > 0 THEN opt.maxPerVideoSec ELSE 3000)
      rem    == IF musicSeconds - budget > 1000 THEN musicSeconds - budget ELSE 1000
      stills == Len(job.items) - nv
  IN IF WantMatch(opt, hasMusicPath, musicSeconds) /\ stills > 0
     THEN FracMax(Frac(1200, 1), FracMin(Frac(4000, 1), Frac(rem, stills)))
     ELSE Frac(opt.durationSec, 1)

\* findUnique({id}); if (!job) throw "job_missing"; ensureDir(tmpDir); the
\* music is decoded, written and probed (ffprobeInfo rejects when ffprobe
\* exits non-zero); wantMatch and perImage are computed.  The first item's
\* decode is part of TickSegment.
TickReadJob(t) ==
  /\ pc[t] = "readJob"
  /\ \/ Throw(t, "io_error") /\ UNCHANGED <<tmpDirs, musicPath, perImage>>
     \/ IF oldest[t] \notin Created
        THEN Throw(t, "job_missing") /\ UNCHANGED <<tmpDirs, musicPath, perImage>>
        ELSE LET music == Job(t).options.music
                 has   == music.kind # "none" /\ music.len > 0
             IN
             \/ Throw(t, "io_error") /\ UNCHANGED <<tmpDirs, musicPath, perImage>>
             \/ /\ has
                /\ tmpDirs' = tmpDirs \cup {oldest[t]}
                /\ musicPath' = [musicPath EXCEPT ![t] = TRUE]
                /\ \E msg \in ToolErrors("ffprobe") : Throw(t, msg)
                /\ UNCHANGED perImage
             \/ /\ tmpDirs' = tmpDirs \cup {oldest[t]}
                /\ musicPath' = [musicPath EXCEPT ![t] = has]
                /\ perImage' = [perImage EXCEPT ![t] =
                                  PerImage(Job(t), has, ProbedDur(music))]
                /\ pc' = [pc EXCEPT ![t] = "segment"]
                /\ UNCHANGED err
  /\ UNCHANGED <<oldest, idx, segs, outTs, toDelete, won, clock>>
  /\ UNCHANGED <<renderJob, render, renderSeq, files, partial>>
  /\ UNCHANGED <<intakeVars, bootVars, vfVars>>

\* mutant: the flag is taken as sent, music or not
KeepVideoAudioFlagOnly(opt) == opt.keepVideoAudio

\* keepVideoAudio = !!opt.keepVideoAudio && !opt.music
KeepVideoAudio(opt) == opt.keepVideoAudio /\ opt.music.kind = "none"

\* The segment seg-<i>.mp4 built from item i: makeImageSegment(.., perImage, ..)
\* for a still, makeVideoSegment(.., trimToSec) for a video (-t maxPerVideoSec
\* when that is > 0).  A video segment keeps the source's audio track when
\* keepAudio is passed; every other segment gets a silent track (anullsrc).
Segment(i, it, perImg, opt) ==
  [item |-> i,
   audio |-> it.kind = "video" /\ KeepVideoAudio(opt),
   dur  |-> IF it.kind = "image" THEN perImg
            ELSE IF opt.maxPerVideoSec > 0 /\ it.dur > opt.maxPerVideoSec
                 THEN Frac(opt.maxPerVideoSec, 1)
                 ELSE Frac(it.dur, 1)]

\* mutant: segs.unshift(seg)
PushFront(list, seg) == <<seg>> \o list

\* segs.push(seg)
Push(list, seg) == Append(list, seg)

\* writeConcatList: fileList.map(abs => `file '...'`).join("\n"), one line per
\* segment, in list order
WriteConcatList(fileList) == [k \in 1..Len(fileList) |-> fileList[k].item]

\* One iteration of the segment loop: decode / copy the input, build the
\* segment with ffmpeg, push it.  After the last one: writeConcatList, outName
\* with nowTs(), and concatSegments is started.
TickSegment(t) ==
  /\ pc[t] = "segment"
  /\ LET items == Job(t).items
         i     == idx[t]
         seg   == Segment(i, items[i + 1], perImage[t], Job(t).options)
     IN
     \/ /\ \E msg \in {"bad_data_url", "missing_input"} \cup ToolErrors("ffmpeg") :
             Throw(t, msg)
        /\ UNCHANGED <<idx, segs, outTs, clock>>
     \/ /\ i + 1 < Len(items)
        /\ idx' = [idx EXCEPT ![t] = i + 1]
        /\ segs' = [segs EXCEPT ![t] = Push(@, seg)]
        /\ UNCHANGED <<pc, err, outTs, clock>>
     \/ /\ i + 1 = Len(items)
        /\ idx' = [idx EXCEPT ![t] = i + 1]
        /\ segs' = [segs EXCEPT ![t] = Push(@, seg)]
        /\ clock' = clock + 1
        /\ outTs' = [outTs EXCEPT ![t] = clock + 1]
        /\ pc' = [pc EXCEPT ![t] = "concat"]
        /\ UNCHANGED err
  /\ UNCHANGED <<oldest, musicPath, perImage, toDelete, won>>
  /\ UNCHANGED storeVars
  /\ UNCHANGED <<intakeVars, bootVars, vfVars>>

\* mutant: no inner try around the bookkeeping, its throw reaches catch (e)
SaveFailedRethrown(t, msg) == Throw(t, msg)

\* catch (dbErr) { console.error("RENDER_DB_SAVE_FAIL") }: the inner try is
\* left and the DONE update is issued.
SaveFailed(t, msg) ==
  /\ pc' = [pc EXCEPT ![t] = "markDone"]
  /\ UNCHANGED err

\* cleanup of the temp files (try { ...; fs.rmdirSync(tmpDir) } catch {}),
\* then, inside the inner try, statSync(finalPath) and ensureUser is started.
CleanupAndStat(t) ==
  /\ tmpDirs' = tmpDirs \ {oldest[t]}
  /\ \/ pc' = [pc EXCEPT ![t] = "save"] /\ UNCHANGED err
     \/ SaveFailed(t, "stat_failed")

\* concatSegments(listPath, outPath): ffmpeg writes outPath, the public name,
\* in place.  When it fails it may leave what it wrote so far; when music is
\* to be mixed in, its output is an intermediate file.
TickConcat(t) ==
  /\ pc[t] = "concat"
  /\ LET out == OutName(outTs[t], oldest[t]) IN
     \/ /\ \E msg \in ToolErrors("ffmpeg") : Throw(t, msg)
        /\ \E left \in BOOLEAN :
             /\ files' = IF left THEN files \cup {out} ELSE files
             /\ partial' = IF left THEN partial \cup {out} ELSE partial
        /\ UNCHANGED tmpDirs
     \/ /\ files' = files \cup {out}
        /\ partial' = IF musicPath[t] THEN partial \cup {out} ELSE partial
        /\ IF musicPath[t]
           THEN /\ pc' = [pc EXCEPT ![t] = "music"]
                /\ UNCHANGED <<err, tmpDirs>>
           ELSE CleanupAndStat(t)
  /\ UNCHANGED <<oldest, idx, segs, musicPath, perImage, outTs, toDelete, won, clock>>
  /\ UNCHANGED <<renderJob, render, renderSeq>>
  /\ UNCHANGED <<intakeVars, bootVars, vfVars>>

\* replaceAudioWithMusic(outPath, musicPath): ffmpeg writes mixedPath, next to
\* outPath, in place; then try { unlinkSync(outPath) } catch {}
TickMusic(t) ==
  /\ pc[t] = "music"
  /\ LET out == OutName(outTs[t], oldest[t]) IN
     \/ /\ \E msg \in ToolErrors("ffmpeg") : Throw(t, msg)
        /\ \E left \in BOOLEAN :
             /\ files' = IF left THEN files \cup {MixedName(out)} ELSE files
             /\ partial' = IF left THEN partial \cup {MixedName(out)} ELSE partial
        /\ UNCHANGED tmpDirs
     \/ /\ \E unlinked \in BOOLEAN :
             /\ files' = (files \cup {MixedName(out)}) \ (IF unlinked THEN {out} ELSE {})
             /\ partial' = partial \ (IF unlinked THEN {out} ELSE {})
        /\ CleanupAndStat(t)
  /\ UNCHANGED <<oldest, idx, segs, musicPath, perImage, outTs, toDelete, won, clock>>
  /\ UNCHANGED <<renderJob, render, renderSeq>>
  /\ UNCHANGED <<intakeVars, bootVars, vfVars>>

\* ensureUser(job.userEmail) (user.findUnique: the intake handler only
\* enqueues jobs of users that exist, and the model never deletes a user),
\* prisma.render.create({userId, fileName, url, bytes}); then
\* pruneOldRendersForUser is entered.
TickSave(t) ==
  /\ pc[t] = "save"
  /\ \/ /\ \E msg \in {"user_lookup_failed", "render_create_failed"} : SaveFailed(t, msg)
        /\ UNCHANGED <<render, renderSeq, clock>>
     \/ /\ clock' = clock + 1
        /\ render' = render \cup
             {[id |-> renderSeq + 1, userId |-> Job(t).userEmail,
               createdAt |-> clock + 1, fileName |-> FinalName(t)]}
        /\ renderSeq' = renderSeq + 1
        /\ pc' = [pc EXCEPT ![t] = "pruneFind"]
        /\ UNCHANGED err
  /\ UNCHANGED <<oldest, idx, segs, musicPath, perImage, outTs, toDelete, won>>
  /\ UNCHANGED <<renderJob, files, partial, tmpDirs>>
  /\ UNCHANGED <<intakeVars, bootVars, vfVars>>

\* ------------------------------------------- pruneOldRendersForUser
OwnerRows(u) == {r \in render : r.userId = u}

\* render.findMany({where:{userId}, orderBy:{createdAt:"desc"}, skip: KEEP,
\* select:{id, fileName}}): the possible results.  Rows with at least `keep`
\* strictly newer rows are always returned; rows tied in createdAt across the
\* cut are ordered by the store.
BeyondKeep(R, keep) ==
  LET sure == {r \in R : Cardinality({k \in R : k.createdAt > r.createdAt}) >= keep}
      tied == {r \in R \ sure :
                 Cardinality({k \in R : k.createdAt >= r.createdAt}) > keep}
      n    == IF Cardinality(R) > keep THEN Cardinality(R) - keep ELSE 0
  IN {sure \cup T : T \in {X \in SUBSET tied : Cardinality(X) = n - Cardinality(sure)}}

\* mutant: skip: KEEP - 1
FindManySkipOneLess(u) == BeyondKeep(OwnerRows(u), KEEP - 1)

\* mutant: skip: KEEP + 1
FindManySkipOneMore(u) == BeyondKeep(OwnerRows(u), KEEP + 1)

FindManyBeyondKeep(u) == BeyondKeep(OwnerRows(u), KEEP)

Selected(R) == {[id |-> r.id, fileName |-> r.fileName] : r \in R}

\* the unlink loop: try { fs.unlinkSync(join(rendersDir, r.fileName)) } catch {}
\* removes the files whose unlink succeeds
UnlinkLoop(del, removed) ==
  /\ removed \subseteq {r.fileName : r \in del}
  /\ files' = files \ removed
  /\ partial' = partial \ removed

\* user.findUnique({email}); if (!u) return; findMany;
\* if (!toDelete.length) return; the unlink loop; deleteMany is issued
PruneFind(t) ==
  /\ pc[t] = "pruneFind"
  /\ \/ SaveFailed(t, "prune_failed") /\ UNCHANGED <<toDelete, files, partial>>
     \/ \E R \in FindManyBeyondKeep(Job(t).userEmail) :
          IF R = {}
          THEN /\ pc' = [pc EXCEPT ![t] = "markDone"]
               /\ UNCHANGED <<err, toDelete, files, partial>>
          ELSE /\ toDelete' = [toDelete EXCEPT ![t] = Selected(R)]
               /\ \E removed \in SUBSET {r.fileName : r \in R} :
                    UnlinkLoop(Selected(R), removed)
               /\ pc' = [pc EXCEPT ![t] = "pruneDelete"]
               /\ UNCHANGED err
  /\ UNCHANGED <<oldest, idx, segs, musicPath, perImage, outTs, won, clock>>
  /\ UNCHANGED <<renderJob, render, renderSeq, tmpDirs>>
  /\ UNCHANGED <<intakeVars, bootVars, vfVars>>

\* render.deleteMany({where:{id:{in: toDelete.map(r => r.id)}}})
DeleteMany(del) == render' = {r \in render : r.id \notin {d.id : d \in del}}

PruneDelete(t) ==
  /\ pc[t] = "pruneDelete"
  /\ \/ SaveFailed(t, "prune_failed") /\ UNCHANGED render
     \/ /\ DeleteMany(toDelete[t])
        /\ pc' = [pc EXCEPT ![t] = "markDone"]
        /\ UNCHANGED err
  /\ UNCHANGED <<oldest, idx, segs, musicPath, perImage, outTs, toDelete, won, clock>>
  /\ UNCHANGED <<renderJob, renderSeq, files, partial, tmpDirs>>
  /\ UNCHANGED <<intakeVars, bootVars, vfVars>>

\* ------------------------------------------------- terminal updates
\* mutant: the success update writes the URL and leaves the status alone
DoneDataUrlOnly(row, url) == [row EXCEPT !.outputUrl = url]

\* data: { status: "DONE", outputUrl: relUrl, error: null }
DoneData(row, url) ==
  [row EXCEPT !.status = "DONE", !.outputUrl = url, !.error = Null]

\* mutant: a failed job is put back in the queue for another attempt
FailedDataRequeue(row, msg) ==
  [row EXCEPT !.status = "QUEUED", !.error = msg]

\* data: { status: "FAILED", error: e?.message || String(e) }
FailedData(row, msg) ==
  [row EXCEPT !.status = "FAILED", !.error = msg]

\* renderJob.update({where:{id}, data:{status:"DONE", outputUrl: relUrl, error: null}})
TickMarkDone(t) ==
  /\ pc[t] = "markDone"
  /\ \/ /\ Throw(t, "io_error")
        /\ UNCHANGED <<renderJob, oldest, idx, segs, musicPath, perImage, outTs, toDelete>>
     \/ /\ renderJob' = [renderJob EXCEPT ![oldest[t]] =
                           DoneData(@, RelUrl(FinalName(t)))]
        /\ Leave(t)
  /\ UNCHANGED <<render, renderSeq, files, partial, tmpDirs, won, clock>>
  /\ UNCHANGED <<intakeVars, bootVars, vfVars>>

\* catch (e): try { renderJob.update({status:"FAILED", error: e.message}) } catch {}
TickMarkFailed(t) ==
  /\ pc[t] = "markFailed"
  /\ \/ UNCHANGED renderJob
     \/ renderJob' = [renderJob EXCEPT ![oldest[t]] = FailedData(@, err[t])]
  /\ Leave(t)
  /\ UNCHANGED <<render, renderSeq, files, partial, tmpDirs, won, clock>>
  /\ UNCHANGED <<intakeVars, bootVars, vfVars>>

TickStep(t) ==
  \/ TickFind(t)
  \/ TickClaim(t)
  \/ TickReadJob(t)
  \/ TickSegment(t)
  \/ TickConcat(t)
  \/ TickMusic(t)
  \/ TickSave(t)
  \/ PruneFind(t)
  \/ PruneDelete(t)
  \/ TickMarkDone(t)
  \/ TickMarkFailed(t)

Next ==
  \/ \E u \in Emails : Enqueue(u)
  \/ \E t \in Ticks : TickStep(t)

Spec == Init /\ [][Next]_vars

\* setInterval keeps firing in every worker process and every awaited store
\* or tool call settles: each tick() that can take a step eventually does.
FairSpec == Init /\ [][Next]_vars /\ \A t \in Ticks : WF_vars(TickStep(t))

\* --------------------------------------------- pruning on its own
\* One tick() that has just created the Render row of its job and enters
\* pruneOldRendersForUser, for an owner who had n rows before, in each shape
\* of createdAt; no other tick runs.
PruneTick == <<1, 1>>

PruneInit ==
  \E n \in (KEEP - 2)..(KEEP + ExtraRows - 1), shape \in 1..3 :
    LET out == OutName(n + 2, 1) IN
    /\ renderJob = [j \in {1} |->
                      [NewJob(Upload("u1", Stills(1), NoMusic, FALSE), n + 1)
                         EXCEPT !.status = "RUNNING"]]
    /\ render = StoredRows(n, shape) \cup
                  {[id |-> n + 1, userId |-> "u1", createdAt |-> n + 3,
                    fileName |-> out]}
    /\ renderSeq = n + 1
    /\ files = {r.fileName : r \in StoredRows(n, shape)} \cup {out}
    /\ partial = {}
    /\ tmpDirs = {}
    /\ clock = n + 3
    /\ pc = [t \in Ticks |-> IF t = PruneTick THEN "pruneFind" ELSE "idle"]
    /\ oldest = [t \in Ticks |-> IF t = PruneTick THEN 1 ELSE NoJob]
    /\ idx = [t \in Ticks |-> IF t = PruneTick THEN 1 ELSE 0]
    /\ segs = [t \in Ticks |-> IF t = PruneTick
                                THEN <<[item |-> 0, audio |-> FALSE, dur |-> Frac(2500, 1)]>>
                                ELSE <<>>]
    /\ musicPath = [t \in Ticks |-> FALSE]
    /\ perImage = [t \in Ticks |-> IF t = PruneTick THEN Frac(2500, 1) ELSE NoFrac]
    /\ outTs = [t \in Ticks |-> IF t = PruneTick THEN n + 2 ELSE 0]
    /\ err = [t \in Ticks |-> NoErr]
    /\ toDelete = [t \in Ticks |-> {}]
    /\ won = [j \in JobIds |-> IF j = 1 THEN 1 ELSE 0]
    /\ usage = [u \in Users |-> 0]
    /\ res = Response(200, TRUE, Null, 1, 0)
    /\ Booted
    /\ NoVfCall

PruneNext ==
  \/ PruneFind(PruneTick)
  \/ PruneDelete(PruneTick)
  \/ TickMarkDone(PruneTick)

PruneSpec == PruneInit /\ [][PruneNext]_vars

\* ------------------------------------------- pages/api/render-status.ts
\* res.status(code).json({ ok, status, url, error })
StatusReply(code, ok, status, url, error) ==
  [code |-> code, ok |-> ok, status |-> status, url |-> url, error |-> error]

\* mutant: any signed-in user may read any job
IsOwnerAnyone(job, email) == TRUE

\* job.userEmail.toLowerCase() === email.toLowerCase()
IsOwner(job, email) == ToLowerCase(job.userEmail) = ToLowerCase(email)

\* handler of render-status.ts for a request of the session email (Null when
\* signed out) with query.jobId = id (NoJob when absent)
StatusHandler(method, email, id) ==
  IF method # "GET"
    THEN StatusReply(405, FALSE, Null, Null, Null)
  ELSE IF email = Null
    THEN StatusReply(401, FALSE, Null, Null, Null)
  ELSE IF id = NoJob
    THEN StatusReply(400, FALSE, Null, Null, "missing_jobId")
  ELSE IF id \notin Created \/ ~IsOwner(renderJob[id], email)
    THEN StatusReply(404, FALSE, Null, Null, Null)
  ELSE StatusReply(200, TRUE, renderJob[id].status, renderJob[id].outputUrl,
                   renderJob[id].error)

\* session emails of the callers of the status endpoint: the owner as stored,
\* the owner in another letter case, and another user
SessionEmails == {"u1", "U1", "u2"}

\* a job id that no row has
MissingId == MaxJobs + 1

\* --------------------------------------------- the intake on its own
\* Requests of every kind reach the handler: any method, signed in or not
\* (known or unknown user), with 0, 1, MAX_ITEMS or MAX_ITEMS + 1 items, as
\* small data URLs or as data URLs of 1/MAX_ITEMS of the byte ceiling each,
\* without or with music.  No worker runs.
B64LenOf(bytes) == (4 * bytes + 2) \div 3

ItemsOf(n, len) == [k \in 1..n |-> Item("image", len, 0)]

IntakeRequests ==
  {[Upload(e, ItemsOf(n, len), m, FALSE) EXCEPT !.method = meth] :
     meth \in {"POST", "GET"},
     e \in {Null, "u1", "u2", "u9"},
     n \in {0, 1, MAX_ITEMS, MAX_ITEMS + 1},
     len \in {4, B64LenOf(MAX_TOTAL \div MAX_ITEMS)},
     m \in {NoMusic, Music("audio", 4, 3000)}}

IntakeNext == \E q \in IntakeRequests : Handler(q)

IntakeSpec == Init /\ [][IntakeNext]_vars

\* --------------------------------------------- one job on its own
\* One tick() that has just claimed the only job and enters the try block, for
\* every upload of up to MaxItems + 1 stills and videos, without music, with an
\* audio file or with a file that has a video stream, with and without
\* matchMusicDuration and a per-video cap; no other tick runs.
RenderTick == <<1, 1>>

MediaItems == {Item("image", 4, 0), Item("video", 4, 1000), Item("video", 4, 5000)}

ItemLists == UNION {[1..n -> MediaItems] : n \in 1..(MaxItems + 1)}

\* no music; a music object without data; audio-only and video files
MusicAssets ==
  {NoMusic, Music("audio", 0, 0)}
    \cup {Music(k, 4, d) : k \in {"audio", "video"}, d \in {3000, 10000}}

RenderUploads ==
  {[Upload("u1", items, m, match) EXCEPT !.maxPerVideoSec = cap,
                                         !.keepVideoAudio = keep] :
     items \in ItemLists, m \in MusicAssets, match \in BOOLEAN,
     cap \in {0, 2000}, keep \in BOOLEAN}

RenderInit ==
  \E q \in RenderUploads :
    /\ renderJob = [j \in {1} |-> [NewJob(q, KEEP + 2) EXCEPT !.status = "RUNNING"]]
    /\ render = StoredRows(KEEP, 1)
    /\ renderSeq = KEEP + 1
    /\ files = {r.fileName : r \in StoredRows(KEEP, 1)}
    /\ partial = {}
    /\ tmpDirs = {}
    /\ clock = KEEP + 2
    /\ pc = [t \in Ticks |-> IF t = RenderTick THEN "readJob" ELSE "idle"]
    /\ oldest = [t \in Ticks |-> IF t = RenderTick THEN 1 ELSE NoJob]
    /\ idx = [t \in Ticks |-> 0]
    /\ segs = [t \in Ticks |-> <<>>]
    /\ musicPath = [t \in Ticks |-> FALSE]
    /\ perImage = [t \in Ticks |-> NoFrac]
    /\ outTs = [t \in Ticks |-> 0]
    /\ err = [t \in Ticks |-> NoErr]
    /\ toDelete = [t \in Ticks |-> {}]
    /\ won = [j \in JobIds |-> IF j = 1 THEN 1 ELSE 0]
    /\ usage = [u \in Users |-> 0]
    /\ res = Response(200, TRUE, Null, 1, 0)
    /\ Booted
    /\ NoVfCall

RenderNext ==
  \/ TickReadJob(RenderTick)
  \/ TickSegment(RenderTick)
  \/ TickConcat(RenderTick)
  \/ TickMusic(RenderTick)
  \/ TickSave(RenderTick)
  \/ PruneFind(RenderTick)
  \/ PruneDelete(RenderTick)
  \/ TickMarkDone(RenderTick)
  \/ TickMarkFailed(RenderTick)

RenderSpec == RenderInit /\ [][RenderNext]_vars

\* --------------------------------------------- crash and retry of one job
\* The node process p exits while a tick() of it is suspended at an await:
\* every local of its ticks is gone, rows, files and directories stay as they
\* are, and the restarted process polls again.
Crash(p) ==
  /\ \E t \in Ticks : ProcOf(t) = p /\ pc[t] \in Working
  /\ pc' = [t \in Ticks |-> IF ProcOf(t) = p THEN "idle" ELSE pc[t]]
  /\ oldest' = [t \in Ticks |-> IF ProcOf(t) = p THEN NoJob ELSE oldest[t]]
  /\ idx' = [t \in Ticks |-> IF ProcOf(t) = p THEN 0 ELSE idx[t]]
  /\ segs' = [t \in Ticks |-> IF ProcOf(t) = p THEN <<>> ELSE segs[t]]
  /\ musicPath' = [t \in Ticks |-> IF ProcOf(t) = p THEN FALSE ELSE musicPath[t]]
  /\ perImage' = [t \in Ticks |-> IF ProcOf(t) = p THEN NoFrac ELSE perImage[t]]
  /\ outTs' = [t \in Ticks |-> IF ProcOf(t) = p THEN 0 ELSE outTs[t]]
  /\ err' = [t \in Ticks |-> IF ProcOf(t) = p THEN NoErr ELSE err[t]]
  /\ toDelete' = [t \in Ticks |-> IF ProcOf(t) = p THEN {} ELSE toDelete[t]]
  /\ UNCHANGED <<won, clock>>
  /\ UNCHANGED storeVars
  /\ UNCHANGED <<intakeVars, bootVars, vfVars>>

\* An operator's sweep, outside the worker: a RUNNING row that no tick holds
\* is set back to QUEUED (at most MaxAttempts claims per job).
ResetStale(j) ==
  /\ j \in Created
  /\ renderJob[j].status = "RUNNING"
  /\ \A t \in Ticks : oldest[t] # j
  /\ won[j] < MaxAttempts
  /\ renderJob' = [renderJob EXCEPT ![j].status = "QUEUED"]
  /\ UNCHANGED <<render, renderSeq, files, partial, tmpDirs, clock, won>>
  /\ UNCHANGED tickVars
  /\ UNCHANGED <<intakeVars, bootVars, vfVars>>

\* One job of stills without music is queued; one tick at a time works on it.
RetryInit ==
  \E n \in 1..MaxItems :
    /\ renderJob = [j \in {1} |-> NewJob(Upload("u1", Stills(n), NoMusic, FALSE), KEEP + 1)]
    /\ render = StoredRows(KEEP - 1, 1)
    /\ renderSeq = KEEP
    /\ files = {r.fileName : r \in StoredRows(KEEP - 1, 1)}
    /\ partial = {}
    /\ tmpDirs = {}
    /\ clock = KEEP + 1
    /\ pc = [t \in Ticks |-> "idle"]
    /\ oldest = [t \in Ticks |-> NoJob]
    /\ idx = [t \in Ticks |-> 0]
    /\ segs = [t \in Ticks |-> <<>>]
    /\ musicPath = [t \in Ticks |-> FALSE]
    /\ perImage = [t \in Ticks |-> NoFrac]
    /\ outTs = [t \in Ticks |-> 0]
    /\ err = [t \in Ticks |-> NoErr]
    /\ toDelete = [t \in Ticks |-> {}]
    /\ won = [j \in JobIds |-> 0]
    /\ usage = [u \in Users |-> 0]
    /\ res = Response(200, TRUE, Null, 1, 0)
    /\ Booted
    /\ NoVfCall

\* tick() without replaceAudioWithMusic, which a job without music never calls
RetryNext ==
  \/ TickFind(RenderTick)
  \/ TickClaim(RenderTick)
  \/ TickReadJob(RenderTick)
  \/ TickSegment(RenderTick)
  \/ TickConcat(RenderTick)
  \/ TickSave(RenderTick)
  \/ PruneFind(RenderTick)
  \/ PruneDelete(RenderTick)
  \/ TickMarkDone(RenderTick)
  \/ TickMarkFailed(RenderTick)
  \/ Crash(ProcOf(RenderTick))
  \/ \E j \in JobIds : ResetStale(j)

RetrySpec == RetryInit /\ [][RetryNext]_vars

\* --------------------------------------------- VF builders on their own
\* mutant: no rounding down to an even number
EvenIdentity(n) == n

\* even(n) = Math.max(2, Math.floor(n / 2) * 2)
Even(n) == IF (n \div 2) * 2 > 2 THEN (n \div 2) * 2 ELSE 2

\* Math.round(n / d) for n >= 0, d > 0: halves round up
Round(n, d) == (2 * n + d) \div (2 * d)

\* fitDims: arSrc >= arOut is srcW / srcH >= WIDTH / HEIGHT;
\* WIDTH / arSrc = WIDTH * srcH / srcW, HEIGHT * arSrc = HEIGHT * srcW / srcH
FitDims(srcW, srcH) ==
  IF srcW * HEIGHT >= WIDTH * srcH
  THEN [fw |-> WIDTH, fh |-> Even(Round(WIDTH * srcH, srcW))]
  ELSE [fw |-> Even(Round(HEIGHT * srcW, srcH)), fh |-> HEIGHT]

\* frames = Math.max(2, Math.round(secondsDur * FPS)), secondsDur a fraction of ms
Frames(secondsDur) ==
  LET r == Round(secondsDur[1] * FPS, 1000 * secondsDur[2])
  IN IF r > 2 THEN r ELSE 2

\* buildContainWithBlurVF(kind, secondsDur, motion, rot, srcW, srcH, useBlur):
\* what the returned filter graph is made of (useBlur only picks the
\* background chain)
BuildContainWithBlurVF(kind, secondsDur, motion, rot, srcW, srcH) ==
  LET rotated == rot = 90 \/ rot = 270
      rw      == IF rotated THEN srcH ELSE srcW
      rh      == IF rotated THEN srcW ELSE srcH
      dims    == FitDims(rw, rh)
      frames  == Frames(secondsDur)
  IN [kind |-> kind, motion |-> motion, fw |-> Even(dims.fw), fh |-> Even(dims.fh),
      frames |-> frames, maxIdx |-> frames - 1]

\* mutant: the frame index is divided by the frame count
ZoomAtOverFrames(g, n) ==
  IF g.kind = "image" /\ g.motion = "zoom_in"
    THEN Frac(100 * g.frames + 20 * n, 100 * g.frames)
  ELSE IF g.kind = "image" /\ g.motion = "zoom_out"
    THEN Frac(120 * g.frames - 20 * n, 100 * g.frames)
  ELSE Frac(100, 100)

\* The scale factor the graph g applies to frame n: zin = 1.00 + 0.20*(n/maxIdx),
\* zout = 1.20 - 0.20*(n/maxIdx), zpan = 1.08, none for cover and for videos.
ZoomAt(g, n) ==
  IF g.kind = "image" /\ g.motion = "zoom_in"
    THEN Frac(100 * g.maxIdx + 20 * n, 100 * g.maxIdx)
  ELSE IF g.kind = "image" /\ g.motion = "zoom_out"
    THEN Frac(120 * g.maxIdx - 20 * n, 100 * g.maxIdx)
  ELSE IF g.kind = "image" /\ g.motion \in {"pan_left", "pan_right"}
    THEN Frac(108, 100)
  ELSE Frac(100, 100)

\* Source widths and heights: the small ones, and those around the canvas's.
SrcSizes ==
  (1..MaxSmall) \cup {WIDTH - 1, WIDTH, WIDTH + 1, HEIGHT - 1, HEIGHT, HEIGHT + 1, 4000}

Motions == {"zoom_in", "zoom_out", "pan_left", "pan_right", "cover"}

\* still lengths in ms: 0.03 and 2.52 frames' worth, the fitted floor, the
\* default and a third of 10 s
StillDurs == {Frac(1, 1), Frac(84, 1), Frac(1200, 1), Frac(2500, 1), Frac(10000, 3)}

\* makeImageSegment: buildContainWithBlurVF("image", durSec, motion, info.rot, info.w, info.h, ..)
VfCalls ==
  {[kind |-> "image", secondsDur |-> d, motion |-> m, rot |-> r, srcW |-> w, srcH |-> h] :
     d \in StillDurs, m \in Motions, r \in {0, 90, 180, 270},
     w \in SrcSizes, h \in SrcSizes}

VfInit ==
  /\ renderJob = <<>>
  /\ render = StoredRows(KEEP - 1, 1)
  /\ renderSeq = KEEP
  /\ files = {r.fileName : r \in StoredRows(KEEP - 1, 1)}
  /\ partial = {}
  /\ tmpDirs = {}
  /\ clock = KEEP
  /\ pc = [t \in Ticks |-> "idle"]
  /\ oldest = [t \in Ticks |-> NoJob]
  /\ idx = [t \in Ticks |-> 0]
  /\ segs = [t \in Ticks |-> <<>>]
  /\ musicPath = [t \in Ticks |-> FALSE]
  /\ perImage = [t \in Ticks |-> NoFrac]
  /\ outTs = [t \in Ticks |-> 0]
  /\ err = [t \in Ticks |-> NoErr]
  /\ toDelete = [t \in Ticks |-> {}]
  /\ won = [j \in JobIds |-> 0]
  /\ usage = [u \in Users |-> 0]
  /\ res = NoResponse
  /\ Booted
  /\ vfArgs \in VfCalls
  /\ vf = NoVf

\* the call returns
BuildVf ==
  /\ vf = NoVf
  /\ vfArgs # NoVf
  /\ vf' = BuildContainWithBlurVF(vfArgs.kind, vfArgs.secondsDur, vfArgs.motion,
                                  vfArgs.rot, vfArgs.srcW, vfArgs.srcH)
  /\ UNCHANGED vfArgs
  /\ UNCHANGED <<storeVars, tickVars, intakeVars, bootVars, won, clock>>

VfSpec == VfInit /\ [][BuildVf]_vars

\* --------------------------------------------- module load on its own
\* mutant: the top-level code calls boot() without looking at the global flag
GlobalGuardAlways(p) == TRUE

\* if (!(global as any).__renderLoopBooted)
GlobalGuard(p) == ~renderLoopBooted[p]

\* boot() of the module evaluation m of process p, whose flags are mods:
\* if (booted) return; booted = true; setInterval(...)
Boot(p, mods, m) ==
  IF mods[m]
  THEN /\ booted' = [booted EXCEPT ![p] = mods]
       /\ UNCHANGED intervals
  ELSE /\ booted' = [booted EXCEPT ![p] = [mods EXCEPT ![m] = TRUE]]
       /\ intervals' = [intervals EXCEPT ![p] = @ + 1]

\* The module is evaluated (again) in process p: let booted = false; the
\* guarded top-level call of boot().  boot is not exported, this is its only call.
EvalModule(p) ==
  /\ Len(booted[p]) < MaxEvals
  /\ LET mods == Append(booted[p], FALSE)
         m    == Len(booted[p]) + 1
     IN IF GlobalGuard(p)
        THEN /\ renderLoopBooted' = [renderLoopBooted EXCEPT ![p] = TRUE]
             /\ Boot(p, mods, m)
        ELSE /\ booted' = [booted EXCEPT ![p] = mods]
             /\ UNCHANGED <<renderLoopBooted, intervals>>
  /\ UNCHANGED <<storeVars, tickVars, intakeVars, vfVars, won, clock>>

\* node processes that have not loaded the module yet
BootInit ==
  /\ renderJob = <<>>
  /\ render = StoredRows(KEEP - 1, 1)
  /\ renderSeq = KEEP
  /\ files = {r.fileName : r \in StoredRows(KEEP - 1, 1)}
  /\ partial = {}
  /\ tmpDirs = {}
  /\ clock = KEEP
  /\ pc = [t \in Ticks |-> "idle"]
  /\ oldest = [t \in Ticks |-> NoJob]
  /\ idx = [t \in Ticks |-> 0]
  /\ segs = [t \in Ticks |-> <<>>]
  /\ musicPath = [t \in Ticks |-> FALSE]
  /\ perImage = [t \in Ticks |-> NoFrac]
  /\ outTs = [t \in Ticks |-> 0]
  /\ err = [t \in Ticks |-> NoErr]
  /\ toDelete = [t \in Ticks |-> {}]
  /\ won = [j \in JobIds |-> 0]
  /\ usage = [u \in Users |-> 0]
  /\ res = NoResponse
  /\ renderLoopBooted = [p \in Workers |-> FALSE]
  /\ booted = [p \in Workers |-> <<>>]
  /\ intervals = [p \in Workers |-> 0]
  /\ NoVfCall

BootNext == \E p \in Workers : EvalModule(p)

BootSpec == BootInit /\ [][BootNext]_vars

\* --------------------------------------------- concurrent finalizations
\* Every tick has rendered a job of owner "u1" (tick <<p, k>> the job
\* (p - 1) * MaxInFlight + k) and is about to write its Render row; the owner
\* has n rows from before, in each shape of createdAt.
JobOfTick(t) == (t[1] - 1) * MaxInFlight + t[2]

FinalizeInit ==
  \E n \in (KEEP - 2)..(KEEP + 1), shape \in 1..3 :
    /\ renderJob = [j \in 1..Cardinality(Ticks) |->
                      [NewJob(Upload("u1", Stills(1), NoMusic, FALSE), n + j)
                         EXCEPT !.status = "RUNNING"]]
    /\ render = StoredRows(n, shape)
    /\ renderSeq = n
    /\ files = {r.fileName : r \in StoredRows(n, shape)}
                 \cup {OutName(n + Cardinality(Ticks) + JobOfTick(t), JobOfTick(t)) : t \in Ticks}
    /\ partial = {}
    /\ tmpDirs = {}
    /\ clock = n + 2 * Cardinality(Ticks)
    /\ pc = [t \in Ticks |-> "save"]
    /\ oldest = [t \in Ticks |-> JobOfTick(t)]
    /\ idx = [t \in Ticks |-> 1]
    /\ segs = [t \in Ticks |-> <<[item |-> 0, audio |-> FALSE, dur |-> Frac(2500, 1)]>>]
    /\ musicPath = [t \in Ticks |-> FALSE]
    /\ perImage = [t \in Ticks |-> Frac(2500, 1)]
    /\ outTs = [t \in Ticks |-> n + Cardinality(Ticks) + JobOfTick(t)]
    /\ err = [t \in Ticks |-> NoErr]
    /\ toDelete = [t \in Ticks |-> {}]
    /\ won = [j \in JobIds |-> 1]
    /\ usage = [u \in Users |-> 0]
    /\ res = Response(200, TRUE, Null, 1, 0)
    /\ Booted
    /\ NoVfCall

\* The awaited call of tick t settles without throwing: no catch (dbErr), no
\* catch (e).  (findMany may still return nothing to delete.)
Succeeds(t) ==
  /\ pc[t] = "save" => pc'[t] = "pruneFind"
  /\ pc[t] = "pruneFind" =>
       \/ pc'[t] = "pruneDelete"
       \/ {} \in FindManyBeyondKeep(Job(t).userEmail)
  /\ pc[t] = "pruneDelete" => render' # render
  /\ pc[t] = "markDone" => pc'[t] = "idle"

FinalizeNext ==
  \E t \in Ticks :
    \/ TickSave(t) /\ Succeeds(t)
    \/ PruneFind(t) /\ Succeeds(t)
    \/ PruneDelete(t) /\ Succeeds(t)
    \/ TickMarkDone(t) /\ Succeeds(t)

FinalizeSpec == FinalizeInit /\ [][FinalizeNext]_vars

\* ================================================================ claims
Holders(j) == {t \in Ticks : oldest[t] = j /\ pc[t] \in Working}

StatusOf(j) == renderJob[j].status

\* C1: however the ticks interleave, the conditional Queued -> Running update
\* returns count = 1 for exactly one of the ticks that attempt it on a job:
\* a job that has left Queued was claimed exactly once, a Queued job never,
\* and at most one tick is working on a job.
C1_ClaimExactlyOnce ==
  \A j \in Created :
    /\ won[j] <= 1
    /\ (StatusOf(j) = "QUEUED") <=> (won[j] = 0)
    /\ Cardinality(Holders(j)) <= 1

\* two ticks found the same job; one holds it, the other's update is pending
C1_Witness ==
  \E j \in Created : \E t1, t2 \in Ticks :
    /\ t1 # t2 /\ oldest[t1] = j /\ oldest[t2] = j
    /\ pc[t1] = "readJob" /\ pc[t2] = "claim" /\ won[j] = 1

\* C2: a tick whose conditional claim affects zero rows ends at once and
\* changes no job row, no Render row, no temp directory and no artifact file.
C2_LoserNoSideEffects ==
  [][\A t \in Ticks :
       (pc[t] = "claim" /\ pc'[t] # "claim" /\ StatusOf(oldest[t]) # "QUEUED")
         => /\ pc'[t] = "idle" /\ oldest'[t] = NoJob
            /\ UNCHANGED storeVars]_vars

\* a tick is about to run its claim on a job that another tick is rendering
C2_Witness ==
  \E t1, t2 \in Ticks :
    /\ t1 # t2 /\ oldest[t1] = oldest[t2]
    /\ pc[t1] = "claim" /\ pc[t2] = "segment"
    /\ StatusOf(oldest[t1]) = "RUNNING"

Transitions ==
  {<<"QUEUED", "RUNNING">>, <<"RUNNING", "DONE">>, <<"RUNNING", "FAILED">>}

\* C3: a job's status changes only along Queued -> Running, Running -> Done,
\* Running -> Failed; nothing changes the status of a Done or Failed job.
C3_StatusTransitions ==
  [][\A j \in Created :
       renderJob'[j].status # renderJob[j].status
         => <<renderJob[j].status, renderJob'[j].status>> \in Transitions]_vars

\* a later tick still holds a terminal job as its `oldest` and runs its claim
C3_Witness ==
  \E t \in Ticks :
    /\ pc[t] = "claim"
    /\ StatusOf(oldest[t]) \in {"DONE", "FAILED"}

RunningOf(p) ==
  {j \in Created : StatusOf(j) = "RUNNING" /\ \E t \in Holders(j) : ProcOf(t) = p}

\* C4: a worker process never has two jobs it claimed in Running at once.
C4_OneJobPerProcess ==
  \A p \in Procs : Cardinality(RunningOf(p)) <= 1

\* C5: a tick never exits leaving its claimed job in Running: every Running
\* job is held by a tick that is still working on it.
C5_NoJobLeftRunning ==
  \A j \in Created : StatusOf(j) = "RUNNING" => Holders(j) # {}

\* C6: every job that enters Running eventually reaches Done or Failed.
C6_RunsToCompletion ==
  \A j \in JobIds :
    (j \in Created /\ StatusOf(j) = "RUNNING")
      ~> (j \in Created /\ StatusOf(j) \in {"DONE", "FAILED"})

\* C7: a job has an output URL only if it is Done and an error message only
\* if it is Failed (so Queued and Running jobs have neither and a Done job
\* has a null error).
C7_OutputFields ==
  \A j \in Created :
    /\ renderJob[j].outputUrl # Null => StatusOf(j) = "DONE"
    /\ renderJob[j].error # Null => StatusOf(j) = "FAILED"

\* one job is Done with its URL while another is Failed with its message
C7_Witness ==
  \E j, k \in Created :
    /\ StatusOf(j) = "DONE" /\ renderJob[j].outputUrl # Null
    /\ StatusOf(k) = "FAILED" /\ renderJob[k].error # Null

SaveMsgs ==
  {"stat_failed", "user_lookup_failed", "render_create_failed", "prune_failed"}

SaveStages == {"save", "pruneFind", "pruneDelete"}

OldestOf(S, R, n) ==
  /\ S \subseteq R
  /\ Cardinality(S) = n
  /\ \A d \in S : \A k \in R \ S : d.createdAt <= k.createdAt

RowsOf(del) == {r \in render : r.id \in {d.id : d \in del}}

\* C9: pruning an owner with N rows: for N > KEEP the rows selected, and then
\* deleted, are exactly the N - KEEP oldest by creation time, the KEEP
\* newest remain and no other owner's row is touched; for N <= KEEP (as
\* after a pruning) it returns without deleting any row or file.
C9_PruneKeepsNewest ==
  [][\A t \in Ticks :
       LET own == OwnerRows(Job(t).userEmail)
           N   == Cardinality(own)
       IN /\ (pc[t] = "pruneFind" /\ pc'[t] = "pruneDelete")
               => /\ N > KEEP
                  /\ OldestOf(RowsOf(toDelete'[t]), own, N - KEEP)
                  /\ render' = render
          /\ (pc[t] = "pruneFind" /\ pc'[t] = "markDone")
               => render' = render /\ files' = files
          /\ (pc[t] = "pruneFind" /\ N <= KEEP)
               => render' = render /\ files' = files /\ pc'[t] # "pruneDelete"
          /\ (pc[t] = "pruneDelete" /\ render' # render)
               => /\ render' = render \ RowsOf(toDelete[t])
                  /\ OldestOf(own \ render', own, N - KEEP)
                  /\ Cardinality(own \cap render') = KEEP]_vars

\* the prune has deleted two rows and left the owner with KEEP rows
C9_Witness ==
  \E t \in Ticks :
    /\ pc[t] = "markDone" /\ Cardinality(toDelete[t]) >= 2
    /\ RowsOf(toDelete[t]) = {}
    /\ Cardinality(OwnerRows("u1")) = KEEP

\* C10: when pruneOldRendersForUser is left, every artifact it selected has
\* lost both its file and its row or kept both.
C10_FileAndRowTogether ==
  [][\A t \in Ticks :
       (pc[t] = "pruneDelete" /\ pc'[t] = "markDone")
         => \A d \in toDelete[t] :
              (d.fileName \in files') <=> (\E r \in render' : r.id = d.id)]_vars

\* C11: publication is atomic: in no reachable state does a file that is
\* partially written, left by a failed transform or an intermediate output
\* exist at a public artifact path (every file of the renders directory is
\* a finished final artifact).
C11_AtomicPublication ==
  \A f \in files : f \notin partial

\* C12: removal of the job's tmp-<jobId> directory is attempted on the success
\* path and on the failure path: once a job is Done or Failed and its tick
\* has returned, its temp directory is gone (an attempted removal succeeds in
\* the model, so a directory that is left was never removed).
C12_TempDirCleanup ==
  \A j \in Created :
    (StatusOf(j) \in {"DONE", "FAILED"} /\ Holders(j) = {}) => j \notin tmpDirs

\* the tick is in catch (e) because the processing of item idx failed
FailedAtItem(t) ==
  /\ pc[t] = "markFailed"
  /\ idx[t] < Len(Job(t).items)
  /\ err[t] \in {"bad_data_url", "missing_input"} \cup ToolErrors("ffmpeg")

\* C13: a failure while processing item i aborts the rest of the job at once:
\* the step that fails builds no segment and writes no file, and from there
\* the tick only returns, with no further segment, no concat or music output,
\* no Render row, and the job Failed.
C13_StageFailureAborts ==
  [][\A t \in Ticks :
       /\ (pc[t] = "segment" /\ pc'[t] = "markFailed")
            => /\ segs'[t] = segs[t]
               /\ UNCHANGED <<files, render, renderJob>>
       /\ (FailedAtItem(t) /\ pc'[t] # pc[t])
            => /\ pc'[t] = "idle"
               /\ UNCHANGED <<files, render>>
               /\ renderJob'[oldest[t]].status = "FAILED"]_vars

\* C14: segments are built one at a time in item order and the concat
\* manifest lists them in that order: each step of the loop adds exactly the
\* segment of the next item at the end of the list, and when concatenation
\* starts the k-th manifest line is the segment of item k, for all n items.
C14_SegmentsInItemOrder ==
  [][\A t \in Ticks :
       /\ (segs'[t] # segs[t] /\ segs'[t] # <<>>)
            => /\ Len(segs'[t]) = Len(segs[t]) + 1
               /\ SubSeq(segs'[t], 1, Len(segs[t])) = segs[t]
               /\ segs'[t][Len(segs'[t])].item = Len(segs[t])
       /\ (pc[t] # "concat" /\ pc'[t] = "concat")
            => WriteConcatList(segs'[t]) = [k \in 1..Len(Job(t).items) |-> k - 1]]_vars

\* concatenation of a job of three items has started
C14_Witness ==
  \E t \in Ticks :
    /\ pc[t] = "concat"
    /\ Len(Job(t).items) >= 3
    /\ Len(WriteConcatList(segs[t])) = Len(Job(t).items)

\* C15: a request with more than MAX_ITEMS items, or whose estimated decoded
\* size exceeds MAX_TOTAL, is answered with an error and creates no RenderJob
\* row; a row is created, in Queued, only for a non-empty item list that
\* passes both checks.
C15_IntakeGuards ==
  [][\A q \in IntakeRequests :
       Handler(q) =>
         /\ (Len(q.items) > MAX_ITEMS \/ TotalBytes(q) > MAX_TOTAL)
              => /\ renderJob' = renderJob
                 /\ ~res'.ok /\ res'.status >= 400 /\ res'.jobId = NoJob
         /\ renderJob' # renderJob
              => /\ Len(q.items) >= 1 /\ Len(q.items) <= MAX_ITEMS
                 /\ TotalBytes(q) <= MAX_TOTAL
                 /\ DOMAIN renderJob' = Created \cup {res'.jobId}
                 /\ res'.jobId \notin Created
                 /\ renderJob'[res'.jobId].status = "QUEUED"
                 /\ renderJob'[res'.jobId].items = q.items
                 /\ \A j \in Created : renderJob'[j] = renderJob[j]]_vars

\* a job of exactly MAX_ITEMS items whose size is exactly MAX_TOTAL is queued,
\* and the last request was turned down for its size
C15_Witness ==
  /\ res.status = 413 /\ res.error = "payload_too_large"
  /\ \E j \in Created :
       /\ Len(renderJob[j].items) = MAX_ITEMS
       /\ SumBytes(renderJob[j].items) = MAX_TOTAL

\* C16: a job whose music asset contains a video stream ends Failed with the
\* reason music_must_be_audio and leaves no output file at a public path; the
\* music is refused before it is mixed in.
C16_MusicMustBeAudio ==
  \A j \in Created :
    renderJob[j].options.music.kind = "video" =>
      /\ StatusOf(j) # "DONE"
      /\ \A t \in Ticks : oldest[t] = j => pc[t] # "music"
      /\ StatusOf(j) = "FAILED" =>
           /\ renderJob[j].error = "music_must_be_audio"
           /\ \A f \in files : f.job # j

FracAdd(a, b) == <<a[1] * b[2] + b[1] * a[2], a[2] * b[2]>>

RECURSIVE SumDur(_)
\* total length of the segments of a list, as an exact quotient
SumDur(list) ==
  IF list = <<>> THEN Frac(0, 1)
  ELSE FracAdd(list[1].dur, SumDur(Tail(list)))

\* the job of tick t asks for fitting and comes with music
Fitting(t) ==
  /\ oldest[t] \in Created
  /\ Job(t).options.matchMusicDuration
  /\ Job(t).options.music.kind # "none"
  /\ Job(t).options.music.len > 0

\* C17: with matchMusicDuration set and music of length M, the lengths of all
\* segments of the job (videos after their cap, stills at the fitted length)
\* add up to at most M plus one frame, 1/FPS s.
C17_TotalFitsMusic ==
  \A t \in Ticks :
    (Fitting(t) /\ pc[t] = "concat") =>
      FracLeq(SumDur(segs[t]),
              Frac(Job(t).options.music.dur * FPS + 1000, FPS))

RECURSIVE VideoTime(_, _)
\* V: the time (ms) the video items take, each after its cap
VideoTime(items, cap) ==
  IF items = <<>> THEN 0
  ELSE (IF items[1].kind # "video" THEN 0
        ELSE IF cap > 0 /\ items[1].dur > cap THEN cap ELSE items[1].dur)
       + VideoTime(Tail(items), cap)

\* C18: with matchMusicDuration set and music of length M, every still of the
\* job gets the same length, max(floor, (M - V) / I), for V the time of the
\* videos after caps, I the number of stills and the floor of 1.2 s.
C18_StillDuration ==
  \A t \in Ticks :
    LET job == Job(t)
        I   == Len(job.items) - NumVideos(job.items)
        V   == VideoTime(job.items, job.options.maxPerVideoSec)
        fit == FracMax(Frac(1200, 1), Frac(job.options.music.dur - V, I))
    IN (Fitting(t) /\ pc[t] \in {"segment", "concat"} /\ I > 0) =>
         /\ FracLeq(perImage[t], fit) /\ FracLeq(fit, perImage[t])
         /\ \A k \in 1..Len(segs[t]) :
              job.items[segs[t][k].item + 1].kind = "image"
                => segs[t][k].dur = perImage[t]

\* C19: the status endpoint returns a job's status, url and error to the
\* signed-in user whose email equals the job's owner email in any letter case;
\* to every other signed-in user it answers for an existing job exactly what it
\* answers for an id that does not exist, 404 {ok: false}.
C19_StatusOnlyToOwner ==
  \A j \in Created : \A e \in SessionEmails :
    LET r == StatusHandler("GET", e, j) IN
    IF ToLowerCase(e) = ToLowerCase(renderJob[j].userEmail)
    THEN /\ r.code = 200 /\ r.ok
         /\ r.status = renderJob[j].status
         /\ r.url = renderJob[j].outputUrl
         /\ r.error = renderJob[j].error
    ELSE /\ r = StatusHandler("GET", e, MissingId)
         /\ r = StatusReply(404, FALSE, Null, Null, Null)

\* a finished job with its url is served to its owner signed in as "U1" and
\* hidden from "u2"
C19_Witness ==
  \E j \in Created :
    /\ renderJob[j].status = "DONE" /\ renderJob[j].outputUrl # Null
    /\ renderJob[j].userEmail = "u1"
    /\ StatusHandler("GET", "U1", j).code = 200
    /\ StatusHandler("GET", "u2", j).code = 404

\* messages that carry the stderr text of ffmpeg or ffprobe
Diagnostics == ToolErrors("ffmpeg") \cup ToolErrors("ffprobe")

\* C20: the error of a Failed job is a short stable code; the stderr output of
\* ffmpeg / ffprobe is never stored in the job's error field and never
\* returned by the status endpoint.
C20_NoToolOutputSurfaced ==
  \A j \in Created :
    /\ renderJob[j].error \notin Diagnostics
    /\ \A e \in SessionEmails :
         StatusHandler("GET", e, j).error \notin Diagnostics

\* the artifact files and the Render rows that carry the id of job j
FilesOf(j) == {f \in files : f.job = j}

RendersOf(j) == {r \in render : r.fileName.job = j}

\* C21: a job that crashed while Running and was reset to Queued is claimed
\* and run again without double-publishing: once the retry has completed,
\* at most one artifact file and at most one Render row belong to the job.
C21_RetryPublishesOnce ==
  \A j \in Created :
    (won[j] >= 2 /\ StatusOf(j) = "DONE" /\ Holders(j) = {}) =>
      /\ Cardinality(FilesOf(j)) <= 1
      /\ Cardinality(RendersOf(j)) <= 1

\* C22: no step deletes a RenderJob row, and every write to an existing row
\* leaves its owner, creation time, items and options as they were: the
\* worker changes only status, outputUrl and error.
C22_WorkerWritesOnlyOutcome ==
  [][\A j \in Created :
       /\ j \in DOMAIN renderJob'
       /\ renderJob'[j].userEmail = renderJob[j].userEmail
       /\ renderJob'[j].createdAt = renderJob[j].createdAt
       /\ renderJob'[j].items = renderJob[j].items
       /\ renderJob'[j].options = renderJob[j].options
       /\ DOMAIN renderJob'[j] = DOMAIN renderJob[j]]_vars

\* a job with music was claimed, rendered and marked DONE by the worker
C22_Witness ==
  \E j \in Created :
    /\ StatusOf(j) = "DONE" /\ won[j] = 1
    /\ renderJob[j].options.music.kind = "audio"
    /\ renderJob[j].userEmail = "u1"

\* C23: music and kept original video audio exclude each other: whenever the
\* music is about to replace, or has replaced, the audio of a job's output,
\* no segment of the job carries original audio; and when both are requested
\* the music is used and the original audio dropped, on every run.
C23_MusicOrOriginalAudio ==
  \A t \in Ticks :
    (oldest[t] \in Created /\ pc[t] \in {"segment", "concat", "music"}) =>
      LET opt == Job(t).options IN
      /\ musicPath[t] => \A k \in 1..Len(segs[t]) : ~segs[t][k].audio
      /\ (opt.keepVideoAudio /\ opt.music.kind # "none" /\ opt.music.len > 0)
           => /\ musicPath[t]
              /\ \A k \in 1..Len(segs[t]) : ~segs[t][k].audio
      /\ (\E k \in 1..Len(segs[t]) : segs[t][k].audio)
           => opt.keepVideoAudio /\ ~musicPath[t]

\* a job that asks for both, with a video item already built, is at the
\* music replacement
C23_Witness ==
  \E t \in Ticks :
    /\ pc[t] = "music"
    /\ Job(t).options.keepVideoAudio
    /\ \E k \in 1..Len(segs[t]) : Job(t).items[segs[t][k].item + 1].kind = "video"

\* the source size after the 90 / 270 degree swap
RotW == IF vfArgs.rot \in {90, 270} THEN vfArgs.srcH ELSE vfArgs.srcW

RotH == IF vfArgs.rot \in {90, 270} THEN vfArgs.srcW ELSE vfArgs.srcH

\* C24: for every positive source size (after the rotation swap) the contain
\* box on the 1080x1920 canvas has even fitW <= 1080 and even fitH <= 1920,
\* with the width pinned to 1080 when srcW/srcH >= 1080/1920 and the height
\* pinned to 1920 otherwise.
C24_ContainBox ==
  vf # NoVf =>
    /\ vf.fw % 2 = 0 /\ vf.fh % 2 = 0
    /\ vf.fw >= 2 /\ vf.fh >= 2
    /\ vf.fw <= 1080 /\ vf.fh <= 1920
    /\ IF RotW * 1920 >= 1080 * RotH THEN vf.fw = 1080 ELSE vf.fh = 1920

\* a source turned by 90 degrees whose box is pinned by height and has a
\* width that had to be rounded down to an even number
C24_Witness ==
  /\ vf # NoVf /\ vfArgs.rot = 90
  /\ vf.fh = 1920 /\ vf.fw < 1080
  /\ Round(1920 * RotW, RotH) % 2 = 1

FracEq(a, b) == a[2] # 0 /\ b[2] # 0 /\ a[1] * b[2] = b[1] * a[2]

\* C25: the frame count of a still is max(2, round(duration * 30)); over the
\* frames 0 .. count - 1 the zoom factor is exactly 1.00 at the first and 1.20
\* at the last frame for zoom_in, exactly 1.20 at the first and 1.00 at the
\* last for zoom_out.
C25_MotionEndpoints ==
  vf # NoVf =>
    LET d     == vfArgs.secondsDur
        r     == (2 * d[1] * 30 + 1000 * d[2]) \div (2 * 1000 * d[2])
        count == IF r >= 2 THEN r ELSE 2
    IN /\ vf.frames = count
       /\ vfArgs.motion = "zoom_in" =>
            /\ FracEq(ZoomAt(vf, 0), Frac(100, 100))
            /\ FracEq(ZoomAt(vf, count - 1), Frac(120, 100))
       /\ vfArgs.motion = "zoom_out" =>
            /\ FracEq(ZoomAt(vf, 0), Frac(120, 100))
            /\ FracEq(ZoomAt(vf, count - 1), Frac(100, 100))

\* a still of 1 ms, whose frame count is held at 2, zooming out
C25_Witness ==
  /\ vf # NoVf /\ vfArgs.motion = "zoom_out"
  /\ vfArgs.secondsDur = Frac(1, 1) /\ vf.frames = 2

\* C26: the job a tick's lookup selects is Queued and no Queued job has an
\* earlier createdAt; and a job is claimed only after every job created
\* before it has been claimed, so claims follow creation order.
C26_OldestFirst ==
  [][\A t \in Ticks :
       /\ (pc[t] = "idle" /\ pc'[t] = "claim") =>
            /\ oldest'[t] \in Created
            /\ renderJob[oldest'[t]].status = "QUEUED"
            /\ \A k \in Created :
                 renderJob[k].status = "QUEUED"
                   => renderJob[oldest'[t]].createdAt <= renderJob[k].createdAt
       /\ \A j \in Created :
            won'[j] > won[j] =>
              \A k \in Created :
                renderJob[k].createdAt < renderJob[j].createdAt => won[k] >= 1]_vars

\* two jobs wait in the queue and a tick's lookup has just returned the first
C26_Witness ==
  \E t \in Ticks :
    /\ pc[t] = "claim" /\ oldest[t] = 1
    /\ Cardinality(Queued) = 2
    /\ renderJob[1].createdAt < renderJob[2].createdAt

\* C27: however often the worker module is evaluated in a process, at most
\* one polling interval is started there, and exactly one once the module has
\* been evaluated.
C27_OnePollerPerProcess ==
  \A p \in Workers :
    /\ intervals[p] <= 1
    /\ Len(booted[p]) >= 1 => intervals[p] = 1
    /\ Cardinality({m \in 1..Len(booted[p]) : booted[p][m]}) = intervals[p]

\* a process that evaluated the module three times
C27_Witness ==
  \E p \in Workers :
    /\ Len(booted[p]) >= 3 /\ renderLoopBooted[p]
    /\ ~booted[p][3] /\ intervals[p] = 1

\* the job's options supply music with data
MusicApplied(j) ==
  renderJob[j].options.music.kind # "none" /\ renderJob[j].options.music.len > 0

\* C28: in the step that makes a job Done, outputUrl becomes /renders/<name>
\* for a file <name> present in the artifact root: the music-mixed file when
\* music was applied, the pre-music concat output being gone, and the concat
\* output otherwise, whether or not the Render row was written and pruned.
C28_DoneUrlNamesFile ==
  [][\A j \in Created :
       (StatusOf(j) # "DONE" /\ renderJob'[j].status = "DONE") =>
         \E f \in files' :
           /\ f.job = j
           /\ renderJob'[j].outputUrl = RelUrl(f)
           /\ IF MusicApplied(j)
              THEN f.mixed /\ [f EXCEPT !.mixed = FALSE] \notin files'
              ELSE ~f.mixed]_vars

====
